---- MODULE Spec2Model ----
(***************************************************************************)
(* Model of rust/src/bitmap.rs (Bitmap) and of build_tree_from_bitmap in   *)
(* rust/src/lib.rs.                                                        *)
(*                                                                         *)
(* A u32 is represented by the set of the positions (0 = least significant *)
(* .. 31 = most significant) of its 1 bits, so that |, &, !, << and >> are *)
(* the operations of the code on all 32 bits.                              *)
(*                                                                         *)
(* A FieldElement is represented by its canonical encoding, a sequence of  *)
(* small integers: zero is <<0>>, one is <<1>>, and the hash of children   *)
(* c1..cn is <<2>> \o c1 \o .. \o cn \o <<3>>, a prefix code, so Hash is a *)
(* deterministic injective function of the tuple of its children.          *)
(***************************************************************************)
EXTENDS Integers, Sequences, FiniteSets, TLC

VARIABLES
    bit_count,               \* argument of Bitmap::new
    items,                   \* Bitmap.items : Vec<u32>
    shadow,                  \* the array of bits the Bitmap stands for
    nops,                    \* number of set_bit / unset_bit calls so far
    depth,                   \* argument of build_tree_from_bitmap
    pc,                      \* position in experiment / build_tree_from_bitmap
    db,                      \* the hash db: key bytes -> DbVal8ary
    i,                       \* loop variable i of the current loop
    levels,                  \* remaining values of (2..depth).rev()
    children_at_prev_level,
    children_at_this_level,
    root,                    \* tree.root
    fast,                    \* per leaf group: was the cached hash pushed
    insert_log,              \* the calls of db.insert made by the build
    level_lens               \* lengths of the completed children sequences

vars == <<bit_count, items, shadow, nops, depth, pc, db, i, levels,
          children_at_prev_level, children_at_this_level, root, fast,
          insert_log, level_lens>>

buildVars == <<depth, db, i, levels, children_at_prev_level,
               children_at_this_level, root, fast, insert_log, level_lens>>

----------------------------------------------------------------------------
(* Bounds *)

MaxBitCount == 33      \* the largest bit_count handed to Bitmap::new
MaxOps == 2            \* set_bit / unset_bit calls on such a bitmap
MaxDepth == 3          \* build_tree_from_bitmap is called with 2 .. MaxDepth
MaxSet == 2            \* set_bit calls before a build

----------------------------------------------------------------------------
(* u32 arithmetic *)

Bits32 == 0 .. 31

BitOr(a, b) == a \cup b
BitAnd(a, b) == a \cap b
BitNot(a) == Bits32 \ a
Shl1(s) == IF s \in Bits32 THEN {s} ELSE {}
Shr(a, n) == {p - n : p \in {q \in a : q >= n}}

\* truncation to u8: the value of the 8 low bits
AsU8(a) ==
    LET bit(p) == IF p \in a THEN 2 ^ p ELSE 0
    IN  bit(0) + bit(1) + bit(2) + bit(3) + bit(4) + bit(5) + bit(6) + bit(7)

----------------------------------------------------------------------------
(* Bitmap *)

NewNoRoundUp(n) == [w \in 1 .. (n \div 32) |-> {}]
NewAllOnes(n) ==
    [w \in 1 .. ((n \div 32) + (IF n % 32 > 0 THEN 1 ELSE 0)) |-> {0}]
New(n) ==
    LET item_count == (n \div 32) + (IF n % 32 > 0 THEN 1 ELSE 0)
    IN  [w \in 1 .. item_count |-> {}]

get_index_and_shift_lsb(n) == [index |-> n \div 32, shift |-> n % 32]
get_index_and_shift(n) == [index |-> n \div 32, shift |-> 31 - (n % 32)]

set_bit(b, n) ==
    LET is == get_index_and_shift(n)
    IN  [b EXCEPT ![is.index + 1] = BitOr(b[is.index + 1], Shl1(is.shift))]

unset_bit_no_not(b, n) ==
    LET is == get_index_and_shift(n)
    IN  [b EXCEPT ![is.index + 1] = BitAnd(b[is.index + 1], Shl1(is.shift))]
unset_bit(b, n) ==
    LET is == get_index_and_shift(n)
    IN  [b EXCEPT ![is.index + 1] =
             BitAnd(b[is.index + 1], BitNot(Shl1(is.shift)))]

get_bit(b, n) ==
    LET is == get_index_and_shift(n)
        item == b[is.index + 1]
    IN  BitAnd(Shr(item, is.shift), {0}) = {0}

get_byte_for_bit(b, n) ==
    LET is == get_index_and_shift(n)
        item == b[is.index + 1]
    IN  AsU8(Shr(item, (is.shift \div 8) * 8)) % 256

len(b) == 32 * Len(b)

----------------------------------------------------------------------------
(* FieldElement, hash function, hash db *)

Zero == <<0>>
One == <<1>>

RECURSIVE Flatten(_)
Flatten(s) == IF s = <<>> THEN <<>> ELSE Head(s) \o Flatten(Tail(s))

Hash(children) == <<2>> \o Flatten(children) \o <<3>>

to_bytes(e) == <<4>> \o e

all_zeros == [k \in 1 .. 8 |-> Zero]

hash_all_ones == Hash([k \in 1 .. 8 |-> One])
hash_all_zeros == Hash(all_zeros)

\* the hash of the empty subtree of height n (empty_tree_hashes[n])
RECURSIVE EmptyTreeHash(_)
EmptyTreeHash(n) ==
    IF n = 0 THEN Zero
    ELSE LET prev == EmptyTreeHash(n - 1)
         IN  Hash(<<prev, prev, prev, prev, prev, prev, prev, prev>>)

insert(d, key, val) ==
    [k \in DOMAIN d \cup {key} |-> IF k = key THEN val ELSE d[k]]

NoDb == [k \in {} |-> <<>>]

\* VanillaSparseMerkleTree8::new: "prepopulate the hash db with the hashes of
\* the leaf nodes, plus all parents of those up to root"
RECURSIVE EmptyTreeDb(_)
EmptyTreeDb(d) ==
    IF d = 0 THEN NoDb
    ELSE LET prev == EmptyTreeHash(d - 1)
         IN  insert(EmptyTreeDb(d - 1), to_bytes(EmptyTreeHash(d)),
                    <<prev, prev, prev, prev, prev, prev, prev, prev>>)

contains_key(d, key) == key \in DOMAIN d

----------------------------------------------------------------------------
(* Bitmap on its own: Bitmap::new, then set_bit / unset_bit calls *)

\* the bit counts handed to Bitmap::new: none, one, the 25 and the whole
\* word of the tests, and one that needs a second word
BitCounts == {0, 1, 25, 32, MaxBitCount}

InitBitmap ==
    /\ bit_count \in BitCounts
    /\ items = New(bit_count)
    /\ shadow = [n \in 0 .. len(New(bit_count)) - 1 |-> FALSE]
    /\ nops = 0
    /\ pc = "bitmap"
    /\ depth = 0
    /\ db = NoDb
    /\ i = 0
    /\ levels = <<>>
    /\ children_at_prev_level = <<>>
    /\ children_at_this_level = <<>>
    /\ root = <<>>
    /\ fast = <<>>
    /\ insert_log = <<>>
    /\ level_lens = <<>>

CallSetBit ==
    /\ pc = "bitmap"
    /\ nops < MaxOps
    /\ \E n \in 0 .. len(items) - 1 :
          /\ items' = set_bit(items, n)
          /\ shadow' = [shadow EXCEPT ![n] = TRUE]
    /\ nops' = nops + 1
    /\ UNCHANGED <<bit_count, pc, buildVars>>

CallUnsetBit ==
    /\ pc = "bitmap"
    /\ nops < MaxOps
    /\ \E n \in 0 .. len(items) - 1 :
          /\ items' = unset_bit(items, n)
          /\ shadow' = [shadow EXCEPT ![n] = FALSE]
    /\ nops' = nops + 1
    /\ UNCHANGED <<bit_count, pc, buildVars>>

NextBitmap == CallSetBit \/ CallUnsetBit

SpecBitmap == InitBitmap /\ [][NextBitmap]_vars

----------------------------------------------------------------------------
(* experiment: a Bitmap of 8^depth bits is filled, then                    *)
(* build_tree_from_bitmap(depth, &revlist, &hash_func, &mut db) runs       *)

RECURSIVE Pow8(_)
Pow8(n) == IF n = 0 THEN 1 ELSE 8 * Pow8(n - 1)

\* the indexes handed to set_bit before a build: three bits of the first
\* octet, the same position in the second octet, both sides of the first
\* word boundary, a bit of the second top-level subtree, and the last bit
FillIdx(d) ==
    {0, 5, 7, 13, 31, 32, (Pow8(d) \div 8) + 5, Pow8(d) - 1}

Init ==
    /\ depth \in 2 .. MaxDepth
    /\ bit_count = Pow8(depth)
    /\ items = New(bit_count)
    /\ shadow = [n \in 0 .. len(New(bit_count)) - 1 |-> FALSE]
    /\ nops = 0
    /\ pc = "fill"
    /\ db = NoDb
    /\ i = 0
    /\ levels = <<>>
    /\ children_at_prev_level = <<>>
    /\ children_at_this_level = <<>>
    /\ root = <<>>
    /\ fast = <<>>
    /\ insert_log = <<>>
    /\ level_lens = <<>>

Fill ==
    /\ pc = "fill"
    /\ nops < MaxSet
    /\ \E n \in FillIdx(depth) :
          /\ items' = set_bit(items, n)
          /\ shadow' = [shadow EXCEPT ![n] = TRUE]
    /\ nops' = nops + 1
    /\ UNCHANGED <<bit_count, pc, buildVars>>

\* for _level in (2..depth).rev()
LevelRangeFrom1(d) == [k \in 1 .. (d - 1) |-> d - k]
LevelRange(d) == [k \in 1 .. (d - 2) |-> d - k]

\* VanillaSparseMerkleTree8::new(hash_func, depth, db), the locals, i = 0
StartBuild ==
    /\ pc = "fill"
    /\ db' = EmptyTreeDb(depth)
    /\ root' = EmptyTreeHash(depth)
    /\ children_at_prev_level' = <<>>
    /\ children_at_this_level' = <<>>
    /\ i' = 0
    /\ levels' = LevelRange(depth)
    /\ pc' = "leaf"
    /\ UNCHANGED <<bit_count, items, shadow, nops, depth, fast, insert_log,
                   level_lens>>

\* if !db.contains_key(&this_hash_bytes)
InsertAlways(d, key) == TRUE
InsertNeeded(d, key) == ~contains_key(d, key)

\* for j in i..i+8 { if b.get_bit(j) { siblings[sibling_index] = one } .. }
LeafSiblingsShifted(b, n) ==
    [k \in 1 .. 8 |->
        IF k < 8 /\ get_bit(b, n + k) THEN One ELSE all_zeros[k]]
LeafSiblings(b, n) ==
    [k \in 1 .. 8 |-> IF get_bit(b, n + k - 1) THEN One ELSE all_zeros[k]]

\* one iteration of the leaf-octet loop
LeafStep ==
    /\ pc = "leaf"
    /\ LET next8 == get_byte_for_bit(items, i)
           siblings == LeafSiblings(items, i)
           this_hash == Hash(siblings)
           this_hash_bytes == to_bytes(this_hash)
       IN  IF next8 > 0
           THEN /\ children_at_prev_level' =
                       Append(children_at_prev_level, this_hash)
                /\ fast' = Append(fast, FALSE)
                /\ IF InsertNeeded(db, this_hash_bytes)
                   THEN /\ db' = insert(db, this_hash_bytes, siblings)
                        /\ insert_log' = Append(insert_log,
                              [phase |-> "leaf", idx |-> i,
                               fresh |-> ~contains_key(db, this_hash_bytes)])
                   ELSE UNCHANGED <<db, insert_log>>
           ELSE /\ children_at_prev_level' =
                       Append(children_at_prev_level, hash_all_zeros)
                /\ fast' = Append(fast, TRUE)
                /\ UNCHANGED <<db, insert_log>>
    /\ i' = i + 8
    /\ IF i + 8 >= len(items)
       THEN /\ pc' = "for"
            /\ level_lens' = Append(level_lens, Len(children_at_prev_level'))
       ELSE UNCHANGED <<pc, level_lens>>
    /\ UNCHANGED <<bit_count, items, shadow, nops, depth, levels,
                   children_at_this_level, root>>

\* the head of an internal-level iteration; len() - 8 on a usize
ForNext ==
    /\ pc = "for"
    /\ levels # <<>>
    /\ levels' = Tail(levels)
    /\ children_at_this_level' = children_at_prev_level
    /\ children_at_prev_level' = <<>>
    /\ IF Len(children_at_prev_level) >= 8
       THEN /\ i' = Len(children_at_prev_level) - 8
            /\ pc' = "internal"
       ELSE /\ i' = 0
            /\ pc' = "panic"
    /\ UNCHANGED <<bit_count, items, shadow, nops, depth, db, root, fast,
                   insert_log, level_lens>>

\* one iteration of the inner loop of an internal level
InternalStep ==
    /\ pc = "internal"
    /\ LET siblings == SubSeq(children_at_this_level, i + 1, i + 8)
           this_hash == Hash(siblings)
           this_hash_bytes == to_bytes(this_hash)
       IN  /\ children_at_prev_level' =
                  Append(children_at_prev_level, this_hash)
           /\ IF InsertNeeded(db, this_hash_bytes)
              THEN /\ db' = insert(db, this_hash_bytes, siblings)
                   /\ insert_log' = Append(insert_log,
                         [phase |-> "internal", idx |-> i,
                          fresh |-> ~contains_key(db, this_hash_bytes)])
              ELSE UNCHANGED <<db, insert_log>>
    /\ IF i = 0
       THEN /\ pc' = "for"
            /\ level_lens' = Append(level_lens, Len(children_at_prev_level'))
            /\ i' = i
       ELSE /\ i' = i - 8
            /\ UNCHANGED <<pc, level_lens>>
    /\ UNCHANGED <<bit_count, items, shadow, nops, depth, levels,
                   children_at_this_level, root, fast>>

\* tree.root = hash_func.hash(children_at_prev_level).unwrap()
SetRoot ==
    /\ pc = "for"
    /\ levels = <<>>
    /\ root' = Hash(children_at_prev_level)
    /\ pc' = "done"
    /\ UNCHANGED <<bit_count, items, shadow, nops, depth, db, i, levels,
                   children_at_prev_level, children_at_this_level, fast,
                   insert_log, level_lens>>

Next == Fill \/ StartBuild \/ LeafStep \/ ForNext \/ InternalStep \/ SetRoot

Spec == Init /\ [][Next]_vars

----------------------------------------------------------------------------
(* Claims about build_tree_from_bitmap, checked under Spec *)

\* the exact children of leaf-octet node g: child k is one iff bit 8g+k is set
ExactTuple(b, g) ==
    [k \in 1 .. 8 |-> IF get_bit(b, 8 * g + k - 1) THEN One ELSE Zero]

\* node g of level lvl of the 8-ary Merkle tree built strictly left to right
RECURSIVE RefNode(_, _, _)
RefNode(b, lvl, g) ==
    IF lvl = 1 THEN Hash(ExactTuple(b, g))
    ELSE Hash([k \in 1 .. 8 |-> RefNode(b, lvl - 1, 8 * g + k - 1)])

RefRoot(b, d) == RefNode(b, d, 0)

\* h_1 = hash of eight zeros, h_(n+1) = hash of eight copies of h_n
RECURSIVE ClosedForm(_)
ClosedForm(n) ==
    IF n = 1 THEN Hash(<<Zero, Zero, Zero, Zero, Zero, Zero, Zero, Zero>>)
    ELSE LET h == ClosedForm(n - 1) IN Hash(<<h, h, h, h, h, h, h, h>>)

LeafPhaseDone == pc = "for" /\ Len(level_lens) = 1

\* C1: the root assigned to tree.root is the root of the reference 8-ary
\* Merkle tree over the bitmap, built strictly left to right.
C1_RootIsReferenceRoot ==
    pc = "done" => root = RefRoot(items, depth)

\* C2: with no bit set, the root is the closed-form value h_depth.
C2_AllZeroRoot ==
    (pc = "done" /\ \A n \in 0 .. len(items) - 1 : ~get_bit(items, n))
        => root = ClosedForm(depth)

\* a finished build of depth 3 over a bitmap with no bit set
C2_Witness ==
    /\ pc = "done"
    /\ depth = 3
    /\ nops = 0
    /\ \A n \in 0 .. len(items) - 1 : ~get_bit(items, n)
    /\ root = ClosedForm(3)

\* C3: in the leaf-octet phase the db receives at most one new entry per
\* distinct non-zero octet pattern, an all-unset group never causes an
\* insert, and insert is only ever called for a key that is absent, so every
\* call adds a key and none replaces an entry.
C3_Dedup ==
    pc \notin {"fill", "bitmap"} =>
        LET leafIns == {n \in 1 .. Len(insert_log) :
                            insert_log[n].phase = "leaf"}
            pat(n) == ExactTuple(items, insert_log[n].idx \div 8)
        IN  /\ \A n \in 1 .. Len(insert_log) : insert_log[n].fresh
            /\ \A n \in leafIns : pat(n) # all_zeros
            /\ \A m, n \in leafIns : m # n => pat(m) # pat(n)
            /\ Cardinality(DOMAIN db) = depth + Len(insert_log)
            /\ LeafPhaseDone =>
                  LET patterns ==
                        {ExactTuple(items, g) : g \in 0 .. Len(fast) - 1}
                            \ {all_zeros}
                      empty == EmptyTreeDb(depth)
                  IN  /\ Cardinality(leafIns) <= Cardinality(patterns)
                      /\ \A key \in DOMAIN empty :
                            key \in DOMAIN db /\ db[key] = empty[key]

\* groups 0 and 1 hold the same non-zero pattern (bits 5 and 13) and the
\* leaf phase made one insert
C3_Witness ==
    /\ pc = "done"
    /\ get_bit(items, 5)
    /\ get_bit(items, 13)
    /\ nops = 2
    /\ Cardinality({n \in 1 .. Len(insert_log) :
                        insert_log[n].phase = "leaf"}) = 1

\* C8: each internal level keeps the left-to-right order: element k of the
\* next-level sequence is the hash of elements 8k .. 8k+7 of the level below.
C8_OrderPreserved ==
    (pc = "for" /\ Len(level_lens) >= 2) =>
        /\ 8 * Len(children_at_prev_level) = Len(children_at_this_level)
        /\ \A k \in 0 .. Len(children_at_prev_level) - 1 :
              children_at_prev_level[k + 1] =
                  Hash(SubSeq(children_at_this_level, 8 * k + 1, 8 * k + 8))

\* C9: after the leaf-octet phase the children sequence has len()/8 entries,
\* entry g is the hash of the exact 8-tuple of bits 8g .. 8g+7, and the
\* cached all-zero-octet hash was pushed for group g exactly when all 8 bits
\* of group g are unset.
C9_LeafLevel ==
    LeafPhaseDone =>
        /\ Len(children_at_prev_level) = len(items) \div 8
        /\ Len(fast) = len(items) \div 8
        /\ \A g \in 0 .. (len(items) \div 8) - 1 :
              /\ children_at_prev_level[g + 1] = Hash(ExactTuple(items, g))
              /\ fast[g + 1] <=> (ExactTuple(items, g) = all_zeros)

\* depth 2, only bit 5 set: group 0 was hashed, groups 1..7 took the cache
C9_Witness ==
    /\ LeafPhaseDone
    /\ depth = 2
    /\ nops = 1
    /\ get_bit(items, 5)
    /\ fast = <<FALSE, TRUE, TRUE, TRUE, TRUE, TRUE, TRUE, TRUE>>
    /\ children_at_prev_level[1] # hash_all_zeros
    /\ children_at_prev_level[2] = hash_all_zeros

\* C10: the build runs depth-2 internal levels, every level's children
\* sequence has a length that is a positive multiple of 8 and one eighth of
\* the level below, and the root is the hash of exactly 8 children.
C10_Levels ==
    /\ pc # "panic"
    /\ Len(level_lens) <= depth - 1
    /\ \A k \in 1 .. Len(level_lens) :
          /\ level_lens[k] > 0
          /\ level_lens[k] % 8 = 0
          /\ IF k = 1 THEN 8 * level_lens[k] = len(items)
                      ELSE 8 * level_lens[k] = level_lens[k - 1]
    /\ pc = "done" =>
          /\ Len(level_lens) - 1 = depth - 2
          /\ Len(children_at_prev_level) = 8
          /\ root = Hash(children_at_prev_level)

\* a finished build of depth 3: 64 leaf-level children, then 8
C10_Witness ==
    /\ pc = "done"
    /\ depth = 3
    /\ level_lens = <<64, 8>>
    /\ Len(children_at_prev_level) = 8

----------------------------------------------------------------------------
(* Claims about the Bitmap, checked under SpecBitmap *)

RoundedUp(n) == 32 * ((n + 31) \div 32)

\* C4: the Bitmap behaves like an array of bits: get_bit(n) is true exactly
\* when the most recent call that targeted n was set_bit, and a call on n
\* leaves every other index alone (shadow is that array of bits).
C4_BitArray ==
    pc = "bitmap" =>
        \A n \in 0 .. len(items) - 1 : get_bit(items, n) = shadow[n]

\* two bits of the second word were set by two calls; both are reported,
\* their neighbours and the first word are not
C4_Witness ==
    /\ pc = "bitmap"
    /\ nops = 2
    /\ len(items) = 64
    /\ get_bit(items, 33)
    /\ get_bit(items, 40)
    /\ ~get_bit(items, 34)
    /\ ~get_bit(items, 1)
    /\ shadow[33]
    /\ shadow[40]

\* C5: get_byte_for_bit(n) is 0 exactly when the 8 bits of the aligned octet
\* of n are all unset, and when get_bit(n) is true the byte is non-zero and
\* has bit number 7 - (n mod 8) set.
C5_ByteForBit ==
    pc = "bitmap" =>
        \A g \in 0 .. (len(items) \div 8) - 1 :
            LET octet == {8 * g + k : k \in 0 .. 7}
            IN  IF \A j \in octet : ~get_bit(items, j)
                THEN \A n \in octet : get_byte_for_bit(items, n) = 0
                ELSE \A n \in octet :
                        LET byte == get_byte_for_bit(items, n)
                        IN  /\ byte \in 1 .. 255
                            /\ get_bit(items, n) =>
                                  (byte \div (2 ^ (7 - (n % 8)))) % 2 = 1

\* only bit 18 is set: get_byte_for_bit(18) = 1 << 5, get_byte_for_bit(0) = 0
C5_Witness ==
    /\ pc = "bitmap"
    /\ len(items) = 32
    /\ \A n \in 0 .. 31 : get_bit(items, n) <=> (n = 18)
    /\ get_byte_for_bit(items, 18) = 32
    /\ get_byte_for_bit(items, 0) = 0

\* C6: right after Bitmap::new(bit_count), get_bit(n) is false for every
\* n < len(), the padding indexes included.
C6_FreshAllZero ==
    (pc = "bitmap" /\ nops = 0) =>
        \A n \in 0 .. len(items) - 1 : ~get_bit(items, n)

\* a bitmap created with 25 bits: index 25 is addressable and unset
C6_Witness ==
    /\ pc = "bitmap"
    /\ nops = 0
    /\ bit_count = 25
    /\ len(items) > 25
    /\ ~get_bit(items, 25)

\* C7: len() is a multiple of 32, at least bit_count, and equal to
\* 32 * ceil(bit_count / 32), whatever set_bit / unset_bit calls were made.
C7_Len ==
    pc = "bitmap" =>
        /\ len(items) % 32 = 0
        /\ len(items) >= bit_count
        /\ len(items) < bit_count + 32
        /\ len(items) = RoundedUp(bit_count)

\* 25 bits requested, 32 reported, after some calls
C7_Witness ==
    /\ pc = "bitmap"
    /\ bit_count = 25
    /\ nops = 2
    /\ len(items) = 32

====
